---- MODULE Spec2Model ----
\* Model of the search / summarization agents of ResearchAgent1:
\*   src/agents/search.py      (SearchAgent)
\*   src/agents/summarizer.py  (SummarizerAgent)
\* A caller owns one SearchAgent and one SummarizerAgent, which may share a
\* logging collaborator (the "knowledge graph"), calls search some number of
\* times, collects the returned lists and passes them to summarize.
EXTENDS Integers, Sequences, FiniteSets, TLC

VARIABLES
    searchAgent,      \* the SearchAgent instance: its attributes
    summarizerAgent,  \* the SummarizerAgent instance: its attributes
    kg,               \* the entries the logging collaborator has received
    collected,        \* the batches the caller holds (summarize's argument)
    lastCall,         \* the most recent call: arguments, environment, outcome
    prevSummarize,    \* the summarize call before the most recent call, if any
    searches,         \* search calls made
    summarizes        \* summarize calls made

vars == <<searchAgent, summarizerAgent, kg, collected, lastCall, prevSummarize,
          searches, summarizes>>

-----------------------------------------------------------------------------
\* Bounds of the model.

MaxSearches == 2    \* search calls in one run
MaxSummarizes == 2  \* summarize calls in one run
MaxYield == 7       \* records a provider iterator yields at most

-----------------------------------------------------------------------------
\* Python values.

\* None is the empty tuple and a present optional value x is <<x>>, so that an
\* optional integer and an optional object reference compare with None.
None == << >>
Some(x) == <<x>>

Min(a, b) == IF a <= b THEN a ELSE b

\* dict.get(key, default)
Get(d, key, default) == IF key \in DOMAIN d THEN d[key] ELSE default

\* s[:k] for k >= 0
Slice(s, k) == SubSeq(s, 1, Min(k, Len(s)))

\* bool(x) of an Optional[int]: None and 0 are falsy
TruthyInt(x) == x # None /\ x[1] # 0

\* bool(x) of an optional object reference
TruthyRef(x) == x # None

\* Text is a sequence of characters; Text(n) has n characters that change
\* with the position.
Chars == <<"a", "b", "c", "d", "e", "f", "g">>
Text(n) == [i \in 1..n |-> Chars[((i - 1) % 7) + 1]]

NoDescription == <<"N", "o", " ", "d", "e", "s", "c", "r", "i", "p", "t", "i", "o", "n">>

-----------------------------------------------------------------------------
\* The logging collaborator: log_agent_action(agent, action, data, timestamp)
\* on the object self.knowledge_graph refers to. Calling it through None is
\* an AttributeError; the collaborator itself records the entry.

log_agent_action(ref, log, agent, action, data, timestamp) ==
    IF ref = None
    THEN [raised |-> TRUE, log |-> log, calls |-> 1]
    ELSE [raised |-> FALSE,
          log |-> Append(log, [agent |-> agent, action |-> action,
                               data |-> data, timestamp |-> timestamp]),
          calls |-> 1]

\* A variant without the `if self.knowledge_graph` guard.
LogActionUnguarded(self, log, action, data, now) ==
    log_agent_action(self.knowledge_graph, log, self.name, action, data, now)

\* SearchAgent._log_action / SummarizerAgent._log_action
_log_action(self, log, action, data, now) ==
    IF TruthyRef(self.knowledge_graph)
    THEN log_agent_action(self.knowledge_graph, log, self.name, action, data, now)
    ELSE [raised |-> FALSE, log |-> log, calls |-> 0]

-----------------------------------------------------------------------------
\* The search provider (DDGS), an opaque collaborator. One behaviour of it is
\* a script: where it raises, if anywhere, and how many records its iterator
\* yields before it stops or raises.
\*   fail = "none"  no failure: `yields` records, then exhausted
\*          "open"  DDGS() / __enter__ raises
\*          "text"  ddgs.text(...) raises
\*          "iter"  the iterator raises after `yields` records
\*          "exit"  __exit__ raises after `yields` records were consumed

RawPool == <<
    [title |-> "A", body |-> Text(4), href |-> "u1"],
    [title |-> "B", body |-> <<"s", "h", "o", "r", "t">>, href |-> ""],
    [body |-> Text(2), href |-> "u3"],
    [title |-> "D"] >>

\* the record the provider yields at position idx (0-based)
RawRecord(idx) == RawPool[(idx % Len(RawPool)) + 1]

ProviderYields == {0, 2, MaxYield}

ProviderScripts ==
    {[fail |-> "open", yields |-> 0], [fail |-> "text", yields |-> 0]}
    \cup [fail : {"none", "iter", "exit"}, yields : ProviderYields]

-----------------------------------------------------------------------------
\* SearchAgent

NewSearchAgent(knowledge_graph) ==
    [knowledge_graph |-> knowledge_graph, name |-> "SearchAgent", max_results |-> 5]

\* A variant that ranks by idx instead of idx + 1.
NormalizeZeroBased(rank, result) ==
    [rank |-> rank - 1,
     title |-> Get(result, "title", "No title"),
     snippet |-> Get(result, "body", NoDescription),
     url |-> Get(result, "href", ""),
     source |-> "duckduckgo"]

\* the SearchResult appended for one provider record
Normalize(rank, result) ==
    [rank |-> rank,
     title |-> Get(result, "title", "No title"),
     snippet |-> Get(result, "body", NoDescription),
     url |-> Get(result, "href", ""),
     source |-> "duckduckgo"]

\* the body of `for idx, result in enumerate(search_results)`, run for the
\* records the iterator yields
RECURSIVE EnumerateLoop(_, _, _)
EnumerateLoop(yields, idx, results) ==
    IF idx >= yields THEN results
    ELSE EnumerateLoop(yields, idx + 1,
                       Append(results, Normalize(idx + 1, RawRecord(idx))))

\* SearchAgent._execute_search. Its try/except catches every Exception of
\* the with block and falls through to `return results`, so no exception
\* leaves the function (`raised`) and the records appended before a failure
\* are returned. `hint` is the max_results the provider was given (None when
\* ddgs.text was never reached). time.sleep(0.5) changes no state.
_execute_search(self, query, max_results, provider) ==
    LET results == IF provider.fail = "open" \/ provider.fail = "text"
                   THEN << >>
                   ELSE EnumerateLoop(provider.yields, 0, << >>)
    IN [raised |-> FALSE,
        value |-> results,
        hint |-> IF provider.fail = "open" THEN None ELSE Some(max_results),
        trace |-> IF provider.fail = "open" THEN <<"DDGS">> ELSE <<"DDGS", "text">>]

\* A variant that miscounts the results by one.
CompletedDataOffByOne(query, results) ==
    [query |-> query, result_count |-> Len(results) + 1, success |-> TRUE]

\* the payload of the "search_completed" event
CompletedData(query, results) ==
    [query |-> query, result_count |-> Len(results), success |-> TRUE]

\* SearchAgent.search. max_results is None or <<n>>. `trace` is the order in
\* which the call reached its collaborators.
search(self, log, query, max_results, provider, now) ==
    LET limit == IF TruthyInt(max_results) THEN max_results[1] ELSE self.max_results
        started == _log_action(self, log, "search_started", [query |-> query], now)
        ex == _execute_search(self, query, limit, provider)
        completed == _log_action(self, started.log, "search_completed",
                                 CompletedData(query, ex.value), now)
        failedFrom == IF ex.raised THEN started ELSE completed
        failed == _log_action(self, failedFrom.log, "search_failed",
                              [query |-> query, error |-> "str(e)"], now)
        Logged(r, action) == IF r.calls > 0 THEN <<action>> ELSE << >>
    IN  IF started.raised
        THEN [raised |-> TRUE, ret |-> << >>, log |-> started.log,
              hint |-> None, calls |-> started.calls,
              trace |-> Logged(started, "search_started")]
        ELSE IF ~ex.raised /\ ~completed.raised
        THEN [raised |-> FALSE, ret |-> ex.value, log |-> completed.log,
              hint |-> ex.hint, calls |-> started.calls + completed.calls,
              trace |-> Logged(started, "search_started") \o ex.trace
                        \o Logged(completed, "search_completed")]
        ELSE [raised |-> failed.raised, ret |-> << >>, log |-> failed.log,
              hint |-> ex.hint,
              calls |-> started.calls + failed.calls
                        + (IF ex.raised THEN 0 ELSE completed.calls),
              trace |-> Logged(started, "search_started") \o ex.trace
                        \o (IF ex.raised THEN << >>
                            ELSE Logged(completed, "search_completed"))
                        \o Logged(failed, "search_failed")]

-----------------------------------------------------------------------------
\* SummarizerAgent

NewSummarizerAgent(knowledge_graph) ==
    [knowledge_graph |-> knowledge_graph, name |-> "SummarizerAgent"]

\* for result_list in search_results: all_results.extend(result_list)
RECURSIVE ExtendLoop(_, _, _)
ExtendLoop(search_results, i, all_results) ==
    IF i > Len(search_results) THEN all_results
    ELSE ExtendLoop(search_results, i + 1, all_results \o search_results[i])

\* A variant without the [:200] slice of the snippet.
FindingUntruncated(result) ==
    [point |-> Get(result, "snippet", << >>),
     source |-> Get(result, "title", "Unknown"),
     url |-> Get(result, "url", "")]

\* the Finding appended to key_findings for one result
Finding(result) ==
    [point |-> Slice(Get(result, "snippet", << >>), 200),
     source |-> Get(result, "title", "Unknown"),
     url |-> Get(result, "url", "")]

\* the SourceRef appended to sources for one result
SourceRef(result) ==
    [title |-> Get(result, "title", "Unknown"), url |-> Get(result, "url", "")]

\* the body of `for result in all_results[:10]`; acc holds key_findings and
\* sources
RECURSIVE FindingsLoop(_, _, _)
FindingsLoop(working, i, acc) ==
    IF i > Len(working) THEN acc
    ELSE LET result == working[i]
             key_findings == Append(acc.key_findings, Finding(result))
             sources == IF Get(result, "url", "") # ""
                        THEN Append(acc.sources, SourceRef(result))
                        ELSE acc.sources
         IN FindingsLoop(working, i + 1,
                         [key_findings |-> key_findings, sources |-> sources])

\* A variant that counts the capped slice instead of all_results.
BuildSummaryCapped(all_results, key_findings, sources) ==
    [key_findings |-> key_findings,
     source_count |-> Len(key_findings),
     sources |-> Slice(sources, 15),
     synthesis_method |-> "heuristic_extraction"]

\* the summary dict
BuildSummary(all_results, key_findings, sources) ==
    [key_findings |-> key_findings,
     source_count |-> Len(all_results),
     sources |-> Slice(sources, 15),
     synthesis_method |-> "heuristic_extraction"]

\* A variant in which all_results starts as the caller's first batch instead
\* of a fresh list, so that extend() grows the caller's list.
SynthesizeAliased(self, search_results) ==
    LET all_results == ExtendLoop(search_results, 1, << >>)
        acc == FindingsLoop(Slice(all_results, 10), 1,
                            [key_findings |-> << >>, sources |-> << >>])
    IN [value |-> BuildSummary(all_results, acc.key_findings, acc.sources),
        search_results |-> IF search_results = << >> THEN search_results
                           ELSE [search_results EXCEPT ![1] = all_results]]

\* SummarizerAgent._synthesize_information. `search_results` is the
\* argument as the call leaves it: all_results is a fresh list and extend()
\* copies the elements, so the caller's lists are not written.
_synthesize_information(self, search_results) ==
    LET all_results == ExtendLoop(search_results, 1, << >>)
        acc == FindingsLoop(Slice(all_results, 10), 1,
                            [key_findings |-> << >>, sources |-> << >>])
    IN [value |-> BuildSummary(all_results, acc.key_findings, acc.sources),
        search_results |-> search_results]

\* SummarizerAgent.summarize
summarize(self, log, search_results, now) ==
    LET started == _log_action(self, log, "summarization_started",
                               [source_count |-> Len(search_results)], now)
        syn == _synthesize_information(self, search_results)
        completed == _log_action(self, started.log, "summarization_completed",
                                 [source_count |-> Len(search_results),
                                  key_points |-> Len(Get(syn.value, "key_findings", << >>))],
                                 now)
    IN  IF started.raised
        THEN [raised |-> TRUE, ret |-> None, log |-> started.log,
              search_results |-> search_results, calls |-> started.calls]
        ELSE [raised |-> completed.raised,
              ret |-> IF completed.raised THEN None ELSE syn.value,
              log |-> completed.log,
              search_results |-> syn.search_results,
              calls |-> started.calls + completed.calls]

-----------------------------------------------------------------------------
\* The caller: it calls search some number of times and keeps the returned
\* lists, may add batches of its own, and then passes the lists to summarize.

Queries == {"q1", "q2"}
MaxResultsArgs == {None, Some(0), Some(-1), Some(3)}
KnowledgeGraphs == {None, Some("kg")}

\* records a caller may pass that did not come from search: with a long
\* snippet, with a snippet of exactly 200 characters, without keys
OwnPool == <<
    [title |-> "L", snippet |-> Text(201), url |-> "u4"],
    [snippet |-> Text(200)],
    [title |-> "T", url |-> "u2"],
    [url |-> ""] >>

\* batches a caller may pass to summarize that did not come from search
Batches == {
    << >>,
    << [title |-> "A", snippet |-> Text(300), url |-> "u1"],
       [title |-> "B", snippet |-> <<"s", "h", "o", "r", "t">>, url |-> ""] >>,
    [i \in 1..12 |-> OwnPool[((i - 1) % Len(OwnPool)) + 1]] }

\* datetime.now(): one tick per call
now == searches + summarizes

Init ==
    /\ \E g \in KnowledgeGraphs :
          /\ searchAgent = NewSearchAgent(g)
          /\ summarizerAgent = NewSummarizerAgent(g)
    /\ kg = << >>
    /\ collected = << >>
    /\ lastCall = [op |-> "none"]
    /\ prevSummarize = None
    /\ searches = 0
    /\ summarizes = 0

\* the caller starts from a batch of its own
Supply(batch) ==
    /\ searches = 0 /\ summarizes = 0
    /\ collected = << >>
    /\ collected' = Append(collected, batch)
    /\ UNCHANGED <<searchAgent, summarizerAgent, kg, lastCall, prevSummarize,
                   searches, summarizes>>

\* results = agent.search(query, max_results); the caller keeps the list
SearchCall(query, max_results, provider) ==
    /\ summarizes = 0
    /\ searches < MaxSearches
    /\ LET r == search(searchAgent, kg, query, max_results, provider, now)
       IN /\ kg' = r.log
          /\ collected' = IF r.raised THEN collected ELSE Append(collected, r.ret)
          /\ lastCall' = [op |-> "search", query |-> query,
                          max_results |-> max_results, provider |-> provider,
                          raised |-> r.raised, ret |-> r.ret, hint |-> r.hint,
                          calls |-> r.calls, trace |-> r.trace,
                          log_start |-> Len(kg)]
    /\ searches' = searches + 1
    /\ UNCHANGED <<searchAgent, summarizerAgent, prevSummarize, summarizes>>

\* summary = agent.summarize(collected)
SummarizeCall ==
    /\ summarizes < MaxSummarizes
    /\ LET r == summarize(summarizerAgent, kg, collected, now)
       IN /\ kg' = r.log
          /\ collected' = r.search_results
          /\ lastCall' = [op |-> "summarize", search_results |-> collected,
                          after |-> r.search_results,
                          raised |-> r.raised, ret |-> r.ret,
                          calls |-> r.calls, log_start |-> Len(kg)]
    /\ prevSummarize' = IF lastCall.op = "summarize"
                        THEN Some([search_results |-> lastCall.search_results,
                                   raised |-> lastCall.raised, ret |-> lastCall.ret])
                        ELSE None
    /\ summarizes' = summarizes + 1
    /\ UNCHANGED <<searchAgent, summarizerAgent, searches>>

Next ==
    \/ \E b \in Batches : Supply(b)
    \/ \E q \in Queries, m \in MaxResultsArgs, p \in ProviderScripts :
          SearchCall(q, m, p)
    \/ SummarizeCall

Spec == Init /\ [][Next]_vars

-----------------------------------------------------------------------------
\* What the properties below read off a state.

IsSearch == lastCall.op = "search"
IsSummarize == lastCall.op = "summarize"

\* the entries the most recent call handed to the collaborator
Emitted == SubSeq(kg, lastCall.log_start + 1, Len(kg))

EmittedActions(action) == {i \in 1..Len(Emitted) : Emitted[i].action = action}

\* the provider raised somewhere during the most recent search call
ProviderRaised == IsSearch /\ lastCall.provider.fail # "none"

\* the number of records in all batches
RECURSIVE TotalRecords(_)
TotalRecords(batches) ==
    IF batches = << >> THEN 0 ELSE Len(Head(batches)) + TotalRecords(Tail(batches))

\* the k-th record of the batches read one after the other, from batch b on
RECURSIVE NthRecord(_, _, _)
NthRecord(batches, b, k) ==
    IF k <= Len(batches[b]) THEN batches[b][k]
    ELSE NthRecord(batches, b + 1, k - Len(batches[b]))

\* the working set: the first min(10, n) records of the batches in order
WorkingSet(batches) ==
    [i \in 1..Min(10, TotalRecords(batches)) |-> NthRecord(batches, 1, i)]

HasUrl(r) == "url" \in DOMAIN r /\ r.url # ""

\* the same agent constructed with the other choice of collaborator
Twin(self) ==
    [self EXCEPT !.knowledge_graph = IF @ = None THEN Some("kg") ELSE None]

-----------------------------------------------------------------------------
\* C1: whenever the provider raises during a search call, at any point
\* (opening the session, issuing the query, or while iterating after k >= 0
\* records), search returns an empty sequence.
C1_EmptyOnProviderFailure ==
    ProviderRaised => (~lastCall.raised /\ lastCall.ret = << >>)

\* C2: whenever the provider raises during a search call made with a logging
\* collaborator attached, the call emits exactly one "search_failed" event,
\* whose data carries the original query, and no "search_completed" event.
C2_OneFailureEvent ==
    (ProviderRaised /\ searchAgent.knowledge_graph # None) =>
        /\ Cardinality(EmittedActions("search_failed")) = 1
        /\ \A i \in EmittedActions("search_failed") :
              Emitted[i].data.query = lastCall.query
        /\ EmittedActions("search_completed") = {}

\* C3: for every query and provider behaviour, the sequence search returns is
\* no longer than max_results, or than the default when max_results is not
\* given (stated for the positive max_results of the contract).
C3_LengthAtMostMaxResults ==
    (IsSearch /\ (lastCall.max_results = None \/ lastCall.max_results[1] > 0)) =>
        Len(lastCall.ret) <= (IF lastCall.max_results = None
                              THEN searchAgent.max_results
                              ELSE lastCall.max_results[1])

\* C4: in every sequence search returns, the i-th element has rank i: the
\* ranks are exactly 1..len(result), whatever the provider yielded and
\* whether or not it failed part-way.
C4_RanksGapFree ==
    IsSearch => \A i \in 1..Len(lastCall.ret) : lastCall.ret[i].rank = i

\* a search whose provider failed part-way returned several records
C4_Witness ==
    /\ IsSearch
    /\ lastCall.provider.fail = "iter"
    /\ Len(lastCall.ret) >= 2

\* C5: for every input to summarize, key_findings has at most 10 elements,
\* sources at most 15, and source_count is the number of records in all
\* input batches (not the size of the capped slice).
C5_SummaryBounds ==
    (IsSummarize /\ ~lastCall.raised) =>
        /\ Len(lastCall.ret.key_findings) <= 10
        /\ Len(lastCall.ret.sources) <= 15
        /\ lastCall.ret.source_count = TotalRecords(lastCall.search_results)

\* summarize was given more than 10 records in several batches
C5_Witness ==
    /\ IsSummarize
    /\ Len(lastCall.search_results) >= 2
    /\ TotalRecords(lastCall.search_results) > 10
    /\ lastCall.ret.source_count > Len(lastCall.ret.key_findings)

\* C6: with W the first min(10, n) records of the batches concatenated in
\* order, key_findings has one Finding per record of W in the same order,
\* whose point is the first min(200, len(snippet)) characters of the record's
\* snippet and whose source and url are the record's title and url; sources
\* is exactly the subsequence of W with a non-empty url, in the same order,
\* each as {title, url}.
C6_FindingsAndSources ==
    (IsSummarize /\ ~lastCall.raised) =>
        LET W == WorkingSet(lastCall.search_results)
            key_findings == lastCall.ret.key_findings
            sources == lastCall.ret.sources
            withUrl == {i \in 1..Len(W) : HasUrl(W[i])}
        IN /\ Len(key_findings) = Len(W)
           /\ \A i \in 1..Len(W) :
                /\ DOMAIN key_findings[i] = {"point", "source", "url"}
                /\ "snippet" \in DOMAIN W[i] =>
                     key_findings[i].point =
                       [j \in 1..Min(200, Len(W[i].snippet)) |-> W[i].snippet[j]]
                /\ "title" \in DOMAIN W[i] => key_findings[i].source = W[i].title
                /\ "url" \in DOMAIN W[i] => key_findings[i].url = W[i].url
           /\ Len(sources) = Cardinality(withUrl)
           /\ \A i \in withUrl :
                LET k == Cardinality({j \in withUrl : j <= i})
                IN /\ DOMAIN sources[k] = {"title", "url"}
                   /\ sources[k].url = W[i].url
                   /\ "title" \in DOMAIN W[i] => sources[k].title = W[i].title

\* summarize was given several batches with more than 10 records, among the
\* first 10 a snippet longer than 200 characters and an empty url
C6_Witness ==
    /\ IsSummarize
    /\ Len(lastCall.search_results) >= 2
    /\ TotalRecords(lastCall.search_results) > 10
    /\ LET W == WorkingSet(lastCall.search_results)
       IN /\ \E i \in 1..Len(W) :
                "snippet" \in DOMAIN W[i] /\ Len(W[i].snippet) > 200
          /\ \E i \in 1..Len(W) : "url" \in DOMAIN W[i] /\ W[i].url = ""
          /\ \E i \in 1..Len(W) : HasUrl(W[i])

\* C7: the result-count hint search passes to the provider is the caller's
\* max_results whenever the caller supplies one, 0 and -1 included, and the
\* per-instance default only when max_results is absent.
C7_HintIsCallerValue ==
    (IsSearch /\ lastCall.hint # None) =>
        lastCall.hint[1] = (IF lastCall.max_results = None
                            THEN searchAgent.max_results
                            ELSE lastCall.max_results[1])

\* C8: the logging collaborator does not influence results: search and
\* summarize return, for the same arguments and provider behaviour, the same
\* value from an agent with a collaborator as from one without; without a
\* collaborator no log call is attempted and no error arises.
C8_CollaboratorDoesNotInfluence ==
    /\ IsSearch =>
         LET twin == search(Twin(searchAgent), << >>, lastCall.query,
                            lastCall.max_results, lastCall.provider, 0)
         IN /\ ~lastCall.raised /\ ~twin.raised
            /\ twin.ret = lastCall.ret
            /\ searchAgent.knowledge_graph = None =>
                 (lastCall.calls = 0 /\ kg = << >>)
    /\ IsSummarize =>
         LET twin == summarize(Twin(summarizerAgent), << >>,
                               lastCall.search_results, 0)
         IN /\ ~lastCall.raised /\ ~twin.raised
            /\ twin.ret = lastCall.ret
            /\ summarizerAgent.knowledge_graph = None =>
                 (lastCall.calls = 0 /\ kg = << >>)

\* an agent without a collaborator summarized the records an agent without a
\* collaborator had searched
C8_Witness ==
    /\ IsSummarize
    /\ summarizerAgent.knowledge_graph = None
    /\ searches >= 1
    /\ Len(lastCall.ret.key_findings) > 0

\* C9: after any earlier search and summarize calls, two summarize calls
\* with the same input batches return identical Summary values, and
\* summarize leaves its input batches unchanged.
C9_SummarizeRepeatable ==
    IsSummarize =>
        /\ lastCall.after = lastCall.search_results
        /\ (prevSummarize # None
            /\ prevSummarize[1].search_results = lastCall.search_results) =>
               /\ prevSummarize[1].raised = lastCall.raised
               /\ prevSummarize[1].ret = lastCall.ret

\* summarize was called twice with the same batches, after search calls
C9_Witness ==
    /\ IsSummarize
    /\ searches >= 1
    /\ prevSummarize # None
    /\ prevSummarize[1].search_results = lastCall.search_results
    /\ Len(lastCall.search_results) >= 2
    /\ Len(lastCall.ret.key_findings) > 0

\* C10: with a collaborator attached, every search call emits exactly two
\* events: first "search_started", carrying the query and emitted before any
\* provider interaction, then one of "search_completed" or "search_failed";
\* a "search_completed" event carries the query, success = true and
\* result_count equal to the length of the sequence the call returns.
C10_TwoLifecycleEvents ==
    (IsSearch /\ searchAgent.knowledge_graph # None) =>
        /\ Len(Emitted) = 2
        /\ lastCall.calls = 2
        /\ Emitted[1].action = "search_started"
        /\ Emitted[1].data.query = lastCall.query
        /\ lastCall.trace[1] = "search_started"
        /\ \A i \in 2..Len(lastCall.trace) : lastCall.trace[i] # "search_started"
        /\ Emitted[2].action \in {"search_completed", "search_failed"}
        /\ Emitted[2].action = "search_completed" =>
             /\ Emitted[2].data.query = lastCall.query
             /\ Emitted[2].data.success = TRUE
             /\ Emitted[2].data.result_count = Len(lastCall.ret)

\* a second search call, with a collaborator, returned records
C10_Witness ==
    /\ IsSearch
    /\ searchAgent.knowledge_graph # None
    /\ lastCall.log_start > 0
    /\ Len(lastCall.ret) > 0

====
